---- MODULE Spec2Model ----
(***************************************************************************)
(* Model of nautilus_trader/adapters/databento/common.py:                  *)
(*   databento_schema_from_nautilus_bar_type  (bar type -> Databento       *)
(*   schema) and map_instrumentId (GLBX <-> CME instrument id mapping,     *)
(*   memoised by functools.lru_cache(20)).                                 *)
(* Strings are sequences of one-character strings, so that indexing,       *)
(* slicing, formatting and parsing are computed as Python computes them.   *)
(***************************************************************************)
EXTENDS Integers, Sequences, FiniteSets, TLC

VARIABLES
    bar_type,   \* argument of databento_schema_from_nautilus_bar_type
    schema,     \* outcome of that call ("pending" until it has run)
    cache,      \* the lru_cache of map_instrumentId, least recently used first
    yi,         \* position of the wall clock in YearSeq
    last,       \* outcome of the latest sequential map_instrumentId call
    issued,     \* how many identifiers of the Ids family have been requested
    pc,         \* per thread: position inside the lru_cache wrapper
    arg,        \* per thread: the identifier being mapped
    res         \* per thread: the outcome of the wrapped function

vars == <<bar_type, schema, cache, yi, last, issued, pc, arg, res>>

----------------------------------------------------------------------------
(* Bounds of the model.                                                    *)

MaxStep == 3        \* bar steps 1..MaxStep
MaxCached == 3      \* Spec: distinct identifiers mapped in one run
NumIds == 22        \* SpecLRU / SpecConc: size of the identifier family

----------------------------------------------------------------------------
(* Python string primitives.                                               *)

DigitSeq == <<"0", "1", "2", "3", "4", "5", "6", "7", "8", "9">>

\* str.isdigit() on a single ASCII character
isdigit(c) == \E i \in 1..Len(DigitSeq) : DigitSeq[i] = c

\* str(n) for a non-negative integer
RECURSIVE str(_)
str(n) == IF n < 10 THEN <<DigitSeq[n + 1]>>
          ELSE Append(str(n \div 10), DigitSeq[(n % 10) + 1])

\* s[:-k]  (a slice never raises; it is empty when the string is too short)
SliceDropLast(s, k) == IF Len(s) <= k THEN <<>> ELSE SubSeq(s, 1, Len(s) - k)

\* s[-k] is defined only when Len(s) >= k; otherwise Python raises IndexError
HasNegIndex(s, k) == Len(s) >= k
NegIndex(s, k) == s[Len(s) - k + 1]

----------------------------------------------------------------------------
(* Outcomes of a call: a returned value or a raised exception.             *)

NoId == [symbol |-> <<>>, venue |-> <<>>]

Returned(v) == [ok |-> TRUE, val |-> v, err |-> "none"]
Raised(e) == [ok |-> FALSE, val |-> NoId, err |-> e]

----------------------------------------------------------------------------
(* databento_schema_from_nautilus_bar_type                                 *)

AggregationSources == {"EXTERNAL", "INTERNAL"}
PriceTypes == {"BID", "ASK", "MID", "LAST"}
BarAggregations == {"TICK", "VOLUME", "VALUE", "MILLISECOND", "SECOND",
                    "MINUTE", "HOUR", "DAY", "WEEK", "MONTH"}

BarTypes == [aggregation : BarAggregations, price_type : PriceTypes,
             step : 1..MaxStep, aggregation_source : AggregationSources]

\* BarType.is_externally_aggregated()
is_externally_aggregated(bt) == bt.aggregation_source = "EXTERNAL"

\* BarSpecification.is_time_aggregated()
is_time_aggregated(bt) ==
    bt.aggregation \in {"MILLISECOND", "SECOND", "MINUTE", "HOUR", "DAY",
                        "WEEK", "MONTH"}

\* the exception PyCondition.true raises when its predicate is false
ContractViolation == "ContractViolation"

\* the exception the function raises itself (raise ValueError(...))
ValueError == "ValueError"

SchemaReturned(s) == [ok |-> TRUE, val |-> s, err |-> "none"]
SchemaRaised(e) == [ok |-> FALSE, val |-> "none", err |-> e]

\* the match statement on bar_type.spec.aggregation
MatchMinuteHourSwapped(aggregation) ==
    CASE aggregation = "SECOND" -> SchemaReturned("OHLCV_1S")
      [] aggregation = "MINUTE" -> SchemaReturned("OHLCV_1H")
      [] aggregation = "HOUR" -> SchemaReturned("OHLCV_1M")
      [] aggregation = "DAY" -> SchemaReturned("OHLCV_1D")
      [] OTHER -> SchemaRaised(ValueError)

match_aggregation(aggregation) ==
    CASE aggregation = "SECOND" -> SchemaReturned("OHLCV_1S")
      [] aggregation = "MINUTE" -> SchemaReturned("OHLCV_1M")
      [] aggregation = "HOUR" -> SchemaReturned("OHLCV_1H")
      [] aggregation = "DAY" -> SchemaReturned("OHLCV_1D")
      [] OTHER -> SchemaRaised(ValueError)

\* mutant: the step check is missing
SchemaNoStepCheck(bt) ==
    IF ~is_externally_aggregated(bt) THEN SchemaRaised(ContractViolation)
    ELSE IF ~is_time_aggregated(bt) THEN SchemaRaised(ValueError)
    ELSE IF bt.price_type # "LAST" THEN SchemaRaised(ValueError)
    ELSE match_aggregation(bt.aggregation)

\* mutant: the aggregation-source condition is checked last
SchemaSourceCheckedLast(bt) ==
    IF ~is_time_aggregated(bt) THEN SchemaRaised(ValueError)
    ELSE IF bt.price_type # "LAST" THEN SchemaRaised(ValueError)
    ELSE IF bt.step # 1 THEN SchemaRaised(ValueError)
    ELSE IF ~is_externally_aggregated(bt) THEN SchemaRaised(ContractViolation)
    ELSE match_aggregation(bt.aggregation)

databento_schema_from_nautilus_bar_type(bt) ==
    IF ~is_externally_aggregated(bt) THEN SchemaRaised(ContractViolation)
    ELSE IF ~is_time_aggregated(bt) THEN SchemaRaised(ValueError)
    ELSE IF bt.price_type # "LAST" THEN SchemaRaised(ValueError)
    ELSE IF bt.step # 1 THEN SchemaRaised(ValueError)
    ELSE match_aggregation(bt.aggregation)

----------------------------------------------------------------------------
(* InstrumentId: a symbol and a venue; its string form is "symbol.venue".  *)

InstrumentId(symbol, venue) == [symbol |-> symbol, venue |-> venue]

\* f"{new_symbol}.{new_venue}"
format_id(symbol, venue) == symbol \o <<".">> \o venue

\* position of the last "." of s, 0 when there is none
RECURSIVE LastDot(_, _)
LastDot(s, i) == IF i = 0 THEN 0
                 ELSE IF s[i] = "." THEN i
                 ELSE LastDot(s, i - 1)

\* InstrumentId.from_str: split at the last ".", both parts non-empty
from_str(s) ==
    LET d == LastDot(s, Len(s)) IN
    IF d <= 1 \/ d = Len(s) THEN Raised(ValueError)
    ELSE Returned(InstrumentId(SubSeq(s, 1, d - 1), SubSeq(s, d + 1, Len(s))))

----------------------------------------------------------------------------
(* map_instrumentId, the function wrapped by lru_cache                     *)

GLBX == <<"G", "L", "B", "X">>
CME == <<"C", "M", "E">>
XNYS == <<"X", "N", "Y", "S">>

YearSeq == <<2024, 2034, 3000>>

\* dt.datetime.now().year
Year == YearSeq[yi]

IndexError == "IndexError"

\* "transform venue"
new_venue(venue) ==
    IF venue = GLBX THEN CME
    ELSE IF venue = CME THEN GLBX
    ELSE venue

SymbolReturned(s) == [ok |-> TRUE, sym |-> s, err |-> "none"]
SymbolRaised(e) == [ok |-> FALSE, sym |-> <<>>, err |-> e]

\* mutant: a missing penultimate character is treated as "not a digit"
NewSymbolNoIndexError(symbol, year) ==
    IF HasNegIndex(symbol, 2) /\ isdigit(NegIndex(symbol, 2))
    THEN SymbolReturned(SliceDropLast(symbol, 2) \o <<NegIndex(symbol, 1)>>)
    ELSE IF HasNegIndex(symbol, 1) /\ isdigit(NegIndex(symbol, 1))
    THEN SymbolReturned(SliceDropLast(symbol, 1) \o <<str(year)[1]>>
                        \o <<NegIndex(symbol, 1)>>)
    ELSE SymbolReturned(symbol)

\* mutant: the year digit is appended after the final digit
NewSymbolDigitAppended(symbol, year) ==
    IF ~HasNegIndex(symbol, 2) THEN SymbolRaised(IndexError)
    ELSE IF isdigit(NegIndex(symbol, 2))
    THEN SymbolReturned(SliceDropLast(symbol, 2) \o <<NegIndex(symbol, 1)>>)
    ELSE IF isdigit(NegIndex(symbol, 1))
    THEN SymbolReturned(symbol \o <<str(year)[1]>>)
    ELSE SymbolReturned(symbol)

\* "transform symbol": symbol.value[-2] raises IndexError on a symbol of
\* fewer than two characters, before any branch is taken
new_symbol(symbol, year) ==
    IF ~HasNegIndex(symbol, 2) THEN SymbolRaised(IndexError)
    ELSE IF isdigit(NegIndex(symbol, 2))
    THEN SymbolReturned(SliceDropLast(symbol, 2) \o <<NegIndex(symbol, 1)>>)
    ELSE IF isdigit(NegIndex(symbol, 1))
    THEN SymbolReturned(SliceDropLast(symbol, 1) \o <<str(year)[1]>>
                        \o <<NegIndex(symbol, 1)>>)
    ELSE SymbolReturned(symbol)

map_instrumentId(instrument_id, year) ==
    LET v == new_venue(instrument_id.venue)
        s == new_symbol(instrument_id.symbol, year)
    IN IF s.ok THEN from_str(format_id(s.sym, v)) ELSE Raised(s.err)

----------------------------------------------------------------------------
(* functools.lru_cache(20): entries ordered least recently used first      *)

maxsize == 20

\* mutant: the key is made from the symbol alone
CacheKeySymbolOnly(instrument_id) == InstrumentId(instrument_id.symbol, <<>>)

\* the key made from the call's argument
CacheKey(instrument_id) == instrument_id

CacheHas(c, k) == \E i \in 1..Len(c) : c[i].key = k
CacheIndex(c, k) == CHOOSE i \in 1..Len(c) : c[i].key = k
CacheGet(c, k) == c[CacheIndex(c, k)].result
CacheKeys(c) == {c[i].key : i \in 1..Len(c)}

Remove(c, i) == SubSeq(c, 1, i - 1) \o SubSeq(c, i + 1, Len(c))

\* mutant: a hit does not refresh the entry
CacheTouchNoMove(c, k) == c

\* a hit moves the entry to the most recently used end
CacheTouch(c, k) ==
    LET i == CacheIndex(c, k) IN Append(Remove(c, i), c[i])

\* mutant: the insert does not look for the key again
CacheInsertNoRecheck(c, k, r) ==
    IF Len(c) >= maxsize THEN Append(Tail(c), [key |-> k, result |-> r])
    ELSE Append(c, [key |-> k, result |-> r])

\* after the wrapped function returned: keep an entry another call added
\* meanwhile, else evict the oldest entry when full, and add the new one
CacheInsert(c, k, r) ==
    IF CacheHas(c, k) THEN c
    ELSE IF Len(c) >= maxsize THEN Append(Tail(c), [key |-> k, result |-> r])
    ELSE Append(c, [key |-> k, result |-> r])

----------------------------------------------------------------------------
(* Inputs.                                                                 *)

ESH24 == <<"E", "S", "H", "2", "4">>
ESH34 == <<"E", "S", "H", "3", "4">>
ESH4 == <<"E", "S", "H", "4">>
SPY == <<"S", "P", "Y">>
BRK_B == <<"B", "R", "K", ".", "B">>
A1B == <<"A", "1", "B">>

\* identifiers mapped under Spec
RichIds ==
    { InstrumentId(ESH24, GLBX), InstrumentId(ESH24, CME),
      InstrumentId(ESH4, CME), InstrumentId(ESH4, GLBX),
      InstrumentId(ESH34, GLBX),
      InstrumentId(SPY, GLBX), InstrumentId(BRK_B, XNYS),
      InstrumentId(A1B, CME),
      InstrumentId(<<"F">>, XNYS), InstrumentId(<<"4">>, CME) }

Alpha == <<"A", "B", "C", "D", "E", "F", "G", "H", "I", "J", "K", "L", "M",
           "N", "O", "P", "Q", "R", "S", "T", "U", "V", "W", "X", "Y", "Z">>

\* identifiers mapped under SpecLRU and SpecConc: N distinct futures
\* contracts in single-digit year form, e.g. CAH4.CME, CBH4.CME, ...
Ids(i) == InstrumentId(<<"C", Alpha[i], "H", "4">>, CME)

Threads == {1, 2}

NoCall == [kind |-> "none", in |-> NoId, out |-> NoId, err |-> "none", yr |-> 0]

InitTranscoder ==
    /\ cache = <<>>
    /\ yi = 1
    /\ last = NoCall
    /\ issued = 0
    /\ pc = [t \in Threads |-> "idle"]
    /\ arg = [t \in Threads |-> NoId]
    /\ res = [t \in Threads |-> Raised("none")]

----------------------------------------------------------------------------
(* Actions.                                                                *)

\* one call of databento_schema_from_nautilus_bar_type
Resolve ==
    /\ schema = SchemaRaised("pending")
    /\ schema' = databento_schema_from_nautilus_bar_type(bar_type)
    /\ UNCHANGED <<bar_type, cache, yi, last, issued, pc, arg, res>>

\* one whole call of the cached map_instrumentId by a single caller:
\* a hit returns the stored result and refreshes the entry; a miss runs
\* the function with the current year and stores what it returned; an
\* exception propagates and nothing is stored
lru_cache_wrapper(instrument_id) ==
    LET k == CacheKey(instrument_id) IN
    IF CacheHas(cache, k)
    THEN /\ cache' = CacheTouch(cache, k)
         /\ last' = [kind |-> "hit", in |-> instrument_id,
                     out |-> CacheGet(cache, k), err |-> "none", yr |-> Year]
    ELSE LET r == map_instrumentId(instrument_id, Year) IN
         IF r.ok
         THEN /\ cache' = CacheInsert(cache, k, r.val)
              /\ last' = [kind |-> "miss", in |-> instrument_id,
                          out |-> r.val, err |-> "none", yr |-> Year]
         ELSE /\ cache' = cache
              /\ last' = [kind |-> "raised", in |-> instrument_id,
                          out |-> NoId, err |-> r.err, yr |-> Year]

\* Spec: any of RichIds, at most MaxCached distinct identifiers cached
Call(instrument_id) ==
    /\ CacheHas(cache, CacheKey(instrument_id)) \/ Len(cache) < MaxCached
    /\ lru_cache_wrapper(instrument_id)
    /\ UNCHANGED <<bar_type, schema, yi, issued, pc, arg, res>>

\* SpecLRU: the next identifier of the family, or the first one again
CallFamily(i) ==
    /\ i = issued + 1 \/ (i = 1 /\ issued >= 1)
    /\ issued' = IF i > issued THEN i ELSE issued
    /\ lru_cache_wrapper(Ids(i))
    /\ UNCHANGED <<bar_type, schema, yi, pc, arg, res>>

\* SpecConc: before any thread is started, the single caller maps the
\* first maxsize - 1 identifiers of the family one after the other
WarmUp(i) ==
    /\ issued < maxsize - 1
    /\ i = issued + 1
    /\ issued' = i
    /\ lru_cache_wrapper(Ids(i))
    /\ UNCHANGED <<bar_type, schema, yi, pc, arg, res>>

\* the wall clock passes into a later year
YearAdvance ==
    /\ yi < Len(YearSeq)
    /\ yi' = yi + 1
    /\ UNCHANGED <<bar_type, schema, cache, last, issued, pc, arg, res>>

\* SpecConc: a thread enters the wrapper and looks its key up; a hit
\* returns at once, a miss leaves the thread about to run the function
Lookup(t, i) ==
    /\ pc[t] = "idle"
    /\ issued >= maxsize - 1
    /\ i \in {1, issued, issued + 1}
    /\ issued' = IF i > issued THEN i ELSE issued
    /\ arg' = [arg EXCEPT ![t] = Ids(i)]
    /\ LET k == CacheKey(Ids(i)) IN
       IF CacheHas(cache, k)
       THEN /\ cache' = CacheTouch(cache, k)
            /\ res' = [res EXCEPT ![t] = Returned(CacheGet(cache, k))]
            /\ pc' = pc
       ELSE /\ pc' = [pc EXCEPT ![t] = "call"]
            /\ res' = [res EXCEPT ![t] = Raised("none")]
            /\ cache' = cache
    /\ UNCHANGED <<bar_type, schema, yi, last>>

\* SpecConc: the thread runs map_instrumentId, holding no lock
Compute(t) ==
    /\ pc[t] = "call"
    /\ LET r == map_instrumentId(arg[t], Year) IN
       /\ res' = [res EXCEPT ![t] = r]
       /\ pc' = [pc EXCEPT ![t] = IF r.ok THEN "insert" ELSE "idle"]
    /\ UNCHANGED <<bar_type, schema, cache, yi, last, issued, arg>>

\* SpecConc: the thread stores its result and returns
Insert(t) ==
    /\ pc[t] = "insert"
    /\ cache' = CacheInsert(cache, CacheKey(arg[t]), res[t].val)
    /\ pc' = [pc EXCEPT ![t] = "idle"]
    /\ UNCHANGED <<bar_type, schema, yi, last, issued, arg, res>>

----------------------------------------------------------------------------
(* Specifications.                                                         *)

\* the schema resolver on every bar type
InitResolve ==
    /\ bar_type \in BarTypes
    /\ schema = SchemaRaised("pending")
    /\ InitTranscoder

NextResolve == Resolve

SpecResolve == InitResolve /\ [][NextResolve]_vars

InitIdle ==
    /\ bar_type = [aggregation |-> "MINUTE", price_type |-> "LAST",
                   step |-> 1, aggregation_source |-> "EXTERNAL"]
    /\ schema = SchemaRaised("pending")

\* the identifier mapping, one caller
Init == InitIdle /\ InitTranscoder

Next == (\E id \in RichIds : Call(id)) \/ YearAdvance

Spec == Init /\ [][Next]_vars

\* the identifier mapping filling its cache, one caller
NextLRU == (\E i \in 1..NumIds : CallFamily(i)) \/ YearAdvance

SpecLRU == Init /\ [][NextLRU]_vars

\* the identifier mapping called from two threads
NextConc ==
    \/ \E i \in 1..NumIds : WarmUp(i)
    \/ \E t \in Threads :
        \/ \E i \in 1..NumIds : Lookup(t, i)
        \/ Compute(t)
        \/ Insert(t)

SpecConc == Init /\ [][NextConc]_vars

----------------------------------------------------------------------------
(* Properties of databento_schema_from_nautilus_bar_type (SpecResolve).    *)

Resolved == schema # SchemaRaised("pending")

SupportedAggregations == {"SECOND", "MINUTE", "HOUR", "DAY"}

AllPreconditions ==
    /\ bar_type.aggregation_source = "EXTERNAL"
    /\ bar_type.price_type = "LAST"
    /\ bar_type.step = 1
    /\ bar_type.aggregation \in SupportedAggregations

\* C1: an EXTERNAL, LAST, step-1 bar type with aggregation SECOND, MINUTE,
\* HOUR or DAY resolves, without error, to OHLCV_1S, OHLCV_1M, OHLCV_1H,
\* OHLCV_1D respectively.
C1_SupportedResolve ==
    (Resolved /\ AllPreconditions) =>
        /\ schema.ok
        /\ schema.err = "none"
        /\ bar_type.aggregation = "SECOND" => schema.val = "OHLCV_1S"
        /\ bar_type.aggregation = "MINUTE" => schema.val = "OHLCV_1M"
        /\ bar_type.aggregation = "HOUR" => schema.val = "OHLCV_1H"
        /\ bar_type.aggregation = "DAY" => schema.val = "OHLCV_1D"

C1_Witness ==
    /\ AllPreconditions
    /\ bar_type.aggregation = "MINUTE"
    /\ schema.ok
    /\ schema.val = "OHLCV_1M"

\* C2: an EXTERNAL bar type with a non-LAST price type, a step other than
\* 1, or an aggregation outside the four supported ones fails with the
\* function's own ValueError and yields no schema; a schema is returned
\* only when all four preconditions hold.
C2_UnsupportedRaises ==
    /\ (Resolved /\ bar_type.aggregation_source = "EXTERNAL"
          /\ ~AllPreconditions) =>
            (~schema.ok /\ schema.err = ValueError /\ schema.val = "none")
    /\ (Resolved /\ schema.ok) => AllPreconditions

C2_Witness ==
    /\ bar_type = [aggregation |-> "MONTH", price_type |-> "LAST",
                   step |-> 1, aggregation_source |-> "EXTERNAL"]
    /\ Resolved
    /\ schema.err = ValueError

----------------------------------------------------------------------------
(* Properties of map_instrumentId, one caller (Spec).                      *)

RECURSIVE LeadingDigit(_)
LeadingDigit(n) == IF n < 10 THEN n ELSE LeadingDigit(n \div 10)

ExpectedVenue(v) ==
    CASE v = GLBX -> CME
      [] v = CME -> GLBX
      [] OTHER -> v

ExpectedSymbol(s, y) ==
    LET n == Len(s) IN
    IF isdigit(s[n - 1])
    THEN [i \in 1..(n - 1) |-> IF i = n - 1 THEN s[n] ELSE s[i]]
    ELSE IF isdigit(s[n])
    THEN [i \in 1..(n + 1) |->
            IF i < n THEN s[i]
            ELSE IF i = n THEN DigitSeq[LeadingDigit(y) + 1]
            ELSE s[n]]
    ELSE s

\* C4: on a cache miss, an identifier whose symbol has at least two
\* characters maps to the identifier with the venue swapped between GLBX
\* and CME (any other venue kept) and with the symbol rewritten from the
\* original symbol alone: penultimate digit removed, else the first digit
\* of the year inserted before a final digit, else unchanged.
C4_MissRewrites ==
    (last.kind \in {"miss", "raised"} /\ Len(last.in.symbol) >= 2) =>
        /\ last.kind = "miss"
        /\ last.out.venue = ExpectedVenue(last.in.venue)
        /\ last.out.symbol = ExpectedSymbol(last.in.symbol, last.yr)

C4_Witness ==
    /\ last.kind = "miss"
    /\ last.in = InstrumentId(ESH4, CME)
    /\ last.yr = 2034
    /\ last.out = InstrumentId(ESH24, GLBX)

TensDigit(y) == DigitSeq[((y \div 10) % 10) + 1]

TwoDigitYearForm(s) ==
    /\ Len(s) >= 3
    /\ ~isdigit(s[Len(s) - 2])
    /\ isdigit(s[Len(s) - 1])
    /\ isdigit(s[Len(s)])

\* C5: for a GLBX or CME identifier whose symbol ends in a non-digit and a
\* two-digit year code with the decade digit of the current year, mapping
\* the result again in the same year gives back the original identifier.
C5_RoundTrip ==
    (/\ last.kind = "miss"
     /\ last.in.venue \in {GLBX, CME}
     /\ TwoDigitYearForm(last.in.symbol)
     /\ last.in.symbol[Len(last.in.symbol) - 1] = TensDigit(last.yr)) =>
        map_instrumentId(last.out, last.yr) = Returned(last.in)

\* C6: an identifier whose symbol does not end in a digit maps to an
\* identifier with exactly the same symbol.
C6_NoTrailingDigitUnchanged ==
    (/\ last.kind # "none"
     /\ Len(last.in.symbol) >= 1
     /\ ~isdigit(last.in.symbol[Len(last.in.symbol)])) =>
        /\ last.kind \in {"hit", "miss"}
        /\ last.out.symbol = last.in.symbol

CacheEntries(c) == {c[i] : i \in 1..Len(c)}

YearsSoFar == {YearSeq[j] : j \in 1..yi}

\* C7: a hit returns the result stored under the full input identifier
\* (symbol and venue), which is what the function returned for that very
\* identifier in the year it was computed, and leaves the stored entries
\* as they are, whatever the current year.
C7_HitReturnsStored ==
    [][last'.kind = "hit" =>
        /\ [key |-> last'.in, result |-> last'.out] \in CacheEntries(cache)
        /\ CacheEntries(cache') = CacheEntries(cache)
        /\ \E y \in YearsSoFar : Returned(last'.out) = map_instrumentId(last'.in, y)
        /\ \A e \in CacheEntries(cache') :
              \E y \in YearsSoFar : Returned(e.result) = map_instrumentId(e.key, y)
      ]_vars

\* a stale hit: computed in 2034, returned in 3000 with the digit of 2034
C7_Witness ==
    /\ last.kind = "hit"
    /\ last.in = InstrumentId(ESH4, CME)
    /\ last.yr = 3000
    /\ last.out = InstrumentId(ESH24, GLBX)
    /\ map_instrumentId(last.in, last.yr) = Returned(InstrumentId(ESH34, GLBX))

SingleDigitOrEmpty(s) == Len(s) = 0 \/ (Len(s) = 1 /\ isdigit(s[1]))

\* C10: mapping an identifier whose symbol is a single digit raises (the
\* IndexError of symbol.value[-2]): no identifier is returned and the
\* cache is left as it was, with no entry for that identifier; the
\* function raises the same error on an empty symbol.
C10_ShortSymbolRaises ==
    [][(last'.kind # "none" /\ SingleDigitOrEmpty(last'.in.symbol)) =>
        /\ last'.kind = "raised"
        /\ last'.err = IndexError
        /\ last'.out = NoId
        /\ cache' = cache
        /\ ~CacheHas(cache', CacheKey(last'.in))
        /\ \A v \in {GLBX, CME, XNYS} :
              map_instrumentId(InstrumentId(<<>>, v), Year') = Raised(IndexError)
      ]_vars

C10_Witness ==
    /\ last.kind = "raised"
    /\ last.in = InstrumentId(<<"4">>, CME)
    /\ last.err = IndexError
    /\ Len(cache) >= 1

----------------------------------------------------------------------------
(* Properties of the cache when it fills up (SpecLRU).                     *)

NoDuplicateKeys(c) ==
    \A i, j \in 1..Len(c) : c[i].key = c[j].key => i = j

KeySeq(c) == [i \in 1..Len(c) |-> c[i].key]

IsCallResult(l) == l.kind \in {"hit", "miss"}

\* C8: the cache never holds more than 20 entries nor one key twice; the
\* identifier just mapped and the one mapped before it are both cached
\* (a hit counts as use); a miss on a full cache removes exactly the
\* least recently used entry; and when the first 21 identifiers are
\* mapped in sequence the 21st evicts the first and keeps the other 20.
C8_BoundedLRU ==
    [][/\ Len(cache') <= maxsize
       /\ NoDuplicateKeys(cache')
       /\ IsCallResult(last') =>
            /\ CacheKey(last'.in) \in CacheKeys(cache')
            /\ IsCallResult(last) => CacheKey(last.in) \in CacheKeys(cache')
       /\ (last'.kind = "miss" /\ cache' # cache /\ Len(cache) = maxsize) =>
            /\ Len(cache') = maxsize
            /\ CacheKeys(cache') =
                 (CacheKeys(cache) \ {cache[1].key}) \cup {CacheKey(last'.in)}
            /\ \A k \in CacheKeys(cache) \ {cache[1].key} :
                 CacheGet(cache', k) = CacheGet(cache, k)
       /\ (/\ KeySeq(cache) = [i \in 1..maxsize |-> CacheKey(Ids(i))]
           /\ last'.in = Ids(maxsize + 1)
           /\ cache' # cache) =>
            KeySeq(cache') = [i \in 1..maxsize |-> CacheKey(Ids(i + 1))]
       /\ (last' # last /\ ~CacheHas(cache, CacheKey(last'.in))) =>
            /\ last'.kind = "miss"
            /\ Returned(last'.out) = map_instrumentId(last'.in, Year')
      ]_vars

\* the first identifier, evicted by the 21st, is mapped again in a later
\* year and recomputed with that year
C8_Witness ==
    /\ issued >= maxsize + 1
    /\ Len(cache) = maxsize
    /\ last.kind = "miss"
    /\ last.in = Ids(1)
    /\ last.yr = 3000
    /\ last.out = InstrumentId(<<"C", "A", "H", "3", "4">>, GLBX)

----------------------------------------------------------------------------
(* Properties of the cache under two threads (SpecConc).                   *)

InWrapper(t) == pc[t] \in {"call", "insert"}

\* C9: no two calls are at the same time between their cache lookup and
\* their cache insert.
C9_MutualExclusion ==
    \A t1, t2 \in Threads : (t1 # t2) => ~(InWrapper(t1) /\ InWrapper(t2))

\* C9, amended: the lookup and the insert are each atomic but the function
\* runs between them without a lock; even so the cache never holds a key
\* twice nor more than 20 entries, a completed insert leaves its key
\* cached (by this call or by the overlapping one), and a step removes at
\* most the least recently used entry of the cache it acts on.
C9_CacheCoherent ==
    [][/\ Len(cache') <= maxsize
       /\ NoDuplicateKeys(cache')
       /\ \A t \in Threads :
            (pc[t] = "insert" /\ pc'[t] = "idle") =>
                /\ CacheHas(cache', CacheKey(arg[t]))
                /\ \E y \in YearsSoFar :
                     Returned(CacheGet(cache', CacheKey(arg[t])))
                        = map_instrumentId(arg[t], y)
       /\ Len(cache) >= 1 =>
            CacheKeys(cache) \ CacheKeys(cache') \subseteq {cache[1].key}
       /\ CacheKeys(cache) \ CacheKeys(cache') # {} => Len(cache) = maxsize
      ]_vars

\* both threads missed on the same identifier; one has inserted it into a
\* full cache, the other is about to insert its own result
C9_Witness ==
    /\ pc[1] = "idle"
    /\ pc[2] = "insert"
    /\ arg[1] = arg[2]
    /\ CacheHas(cache, CacheKey(arg[2]))
    /\ Len(cache) = maxsize
    /\ issued > maxsize

====
